---- MODULE Spec2Model ----
(***************************************************************************)
(* A model of godotenv: the ordered EnvMap (envmap.go) and the dotenv      *)
(* parser, expander, serializer and loader (godotenv.go).                  *)
(*                                                                         *)
(* A Go string is modelled as a sequence of one-character strings, so that *)
(* splitting, trimming, quoting and the regular expressions of the source  *)
(* are computed character by character.                                    *)
(***************************************************************************)
EXTENDS Integers, Sequences, FiniteSets, TLC

VARIABLES
    entries,    \* EnvMap.entries of the map under test          (envmap.go:15)
    keys,       \* EnvMap.keys of the map under test             (envmap.go:16)
    ret,        \* what the last EnvMap call returned: [r, at]
    last,       \* the last EnvMap call: its name, arguments and the map before it
    panicked,   \* TRUE once a call has hit a Go run-time panic
    osenv,      \* the process environment (os.Getenv, os.Setenv, os.Environ)
    mode,       \* the entry point running: "Parse", "Read", "Load" or "Overload"
    doExpand,   \* the expand argument of Parse
    files,      \* the content of each file named in the call, in order
    fi,         \* how many of the files are done
    pc,         \* where the call is: "open", "line", "done"
    lines,      \* Parse: the lines the scanner has read
    ix,         \* Parse: how many of the lines are done
    envMap,     \* Parse: the map under construction
    err,        \* the error the call returns
    total,      \* read: the map that collects the maps of the files
    decoded,    \* history: the pairs the current Parse has decoded, in order
    lastLine,   \* history: the last line parsed, the map before it, what parseLine gave
    merges,     \* history: per merged file, the environment before and the file's entries
    round,      \* 1: parsing the input; 2: parsing what Marshal made of the result
    first       \* the map the first round gave

mapVars == <<entries, keys, ret, last, panicked>>

fileVars == <<osenv, mode, doExpand, files, fi, pc, lines, ix, envMap, err, total,
              decoded, lastLine, merges, round, first>>

------------------------------------------------------------------------------
(* Bounds of the EnvMap specification *)

\* most entries a call of the EnvMap specification may grow the map to
MaxLen == 3

Keys == {<<"a">>, <<"b">>, <<"c">>, <<"d">>}
Vals == {<<"1">>, <<"2">>}
\* positions handed to SetAt and RemoveAt: below, inside and beyond the map
Positions == (0 - 1) .. (MaxLen + 1)

------------------------------------------------------------------------------
(* envmap.go: the ordered map, as pure functions of a map value            *)
(* m = [entries |-> sequence of Pair, keys |-> function key -> index].     *)
(* Indices are Go's: entry number i of the source is entries[i+1] here.    *)

Pair(key, val) == [Key |-> key, Val |-> val]

EmptyStr == <<>>

NoKeys == [k \in {} |-> 0]

NewEnvMap == [entries |-> <<>>, keys |-> NoKeys]

\* EnvMap.Len
MapLen(m) == Len(m.entries)

\* Go's s[lo:hi]
Slice(s, lo, hi) == SubSeq(s, lo + 1, hi)

\* the loop that rebuilds the index: for ix, pair := range entries { keys[pair.Key] = ix }
Reindex(es) ==
    [k \in {es[i].Key : i \in 1..Len(es)} |->
        (CHOOSE i \in 1..Len(es) :
            /\ es[i].Key = k
            /\ \A j \in 1..Len(es) : es[j].Key = k => j <= i) - 1]

Result(m, r, at, panic) == [m |-> m, r |-> r, at |-> at, panic |-> panic]

\* Set as it would be if an existing key were moved to the end
SetMovesToEnd(m, key, val) ==
    LET rest == SelectSeq(m.entries, LAMBDA p : p.Key # key)
        rpl  == Append(rest, Pair(key, val))
    IN  Result([entries |-> rpl, keys |-> Reindex(rpl)],
               IF key \in DOMAIN m.keys THEN m.entries[m.keys[key] + 1].Val ELSE EmptyStr,
               IF key \in DOMAIN m.keys THEN m.keys[key] ELSE 0 - 1, FALSE)

Set(m, key, val) ==
    IF key \in DOMAIN m.keys
    THEN LET at == m.keys[key] IN
         Result([entries |-> [m.entries EXCEPT ![at + 1] = Pair(key, val)],
                 keys |-> m.keys],
                m.entries[at + 1].Val, at, FALSE)
    ELSE Result([entries |-> Append(m.entries, Pair(key, val)),
                 keys |-> [k \in DOMAIN m.keys \cup {key} |->
                              IF k = key THEN Len(m.entries) ELSE m.keys[k]]],
                EmptyStr, 0 - 1, FALSE)

\* the first half of SetAt: an existing key is cut out of entries
SetAtCut(es, ex) ==
    IF ex < Len(es) - 1
    THEN Append(Slice(es, 0, ex), es[ex + 2])
    ELSE Slice(es, 0, ex)

Clamp(at, n) == IF at < 0 THEN 0 ELSE IF at > n THEN n ELSE at

SetAt(m, key, val, at) ==
    LET ok  == key \in DOMAIN m.keys
        ex  == IF ok THEN m.keys[key] ELSE 0 - 1
        was == IF ok THEN m.entries[ex + 1].Val ELSE EmptyStr
        cut == IF ok THEN SetAtCut(m.entries, ex) ELSE m.entries
        at1 == IF ok /\ ex < at THEN at - 1 ELSE at
        at2 == Clamp(at1, Len(cut))
        rpl == Slice(cut, 0, at2) \o <<Pair(key, val)>> \o Slice(cut, at2, Len(cut))
    IN  Result([entries |-> rpl, keys |-> Reindex(rpl)], was, ex, FALSE)

Get(m, key) ==
    IF key \in DOMAIN m.keys
    THEN [r |-> m.entries[m.keys[key] + 1].Val, at |-> m.keys[key]]
    ELSE [r |-> EmptyStr, at |-> 0 - 1]

\* Remove as it would be without the rebuild of the index
RemoveKeepsIndex(m, key) ==
    IF key \in DOMAIN m.keys
    THEN LET at  == m.keys[key]
             rpl == Slice(m.entries, 0, at) \o Slice(m.entries, at + 1, Len(m.entries))
         IN  Result([entries |-> rpl, keys |-> m.keys], m.entries[at + 1].Val, at, FALSE)
    ELSE Result(m, EmptyStr, 0 - 1, FALSE)

Remove(m, key) ==
    IF key \in DOMAIN m.keys
    THEN LET at  == m.keys[key]
             rpl == Slice(m.entries, 0, at) \o Slice(m.entries, at + 1, Len(m.entries))
         IN  Result([entries |-> rpl, keys |-> Reindex(rpl)], m.entries[at + 1].Val, at, FALSE)
    ELSE Result(m, EmptyStr, 0 - 1, FALSE)

\* RemoveAt as it would be if it cut the map off at the removed entry
RemoveAtTruncates(m, at) ==
    IF at < 0 \/ at > Len(m.entries)
    THEN Result(m, EmptyStr, 0 - 1, FALSE)
    ELSE IF at >= Len(m.entries)
    THEN Result(m, EmptyStr, 0 - 1, TRUE)
    ELSE LET rpl == Slice(m.entries, 0, at)
         IN  Result([entries |-> rpl, keys |-> Reindex(rpl)], m.entries[at + 1].Val, at, FALSE)

\* at == len(entries) passes the range test and m.entries[at] panics (index out
\* of range) before anything is written
RemoveAt(m, at) ==
    IF at < 0 \/ at > Len(m.entries)
    THEN Result(m, EmptyStr, 0 - 1, FALSE)
    ELSE IF at >= Len(m.entries)
    THEN Result(m, EmptyStr, 0 - 1, TRUE)
    ELSE LET rpl == Slice(m.entries, 0, at) \o Slice(m.entries, at + 1, Len(m.entries))
         IN  Result([entries |-> rpl, keys |-> Reindex(rpl)], m.entries[at + 1].Val, at, FALSE)

\* Iter visits the entries in order: the sequence of visits
Iter(m) == m.entries

------------------------------------------------------------------------------
(* The EnvMap specification: one map, any sequence of mutating calls *)

theMap == [entries |-> entries, keys |-> keys]

NoCall == [op |-> "none", key |-> EmptyStr, val |-> EmptyStr, at |-> 0,
           pre |-> NewEnvMap]

Call(op, key, val, at) == [op |-> op, key |-> key, val |-> val, at |-> at,
                           pre |-> theMap]

NoLine == [line |-> <<>>, pre |-> NewEnvMap,
           res |-> [err |-> "none", key |-> EmptyStr, value |-> EmptyStr]]

\* the variables of the file entry points, at rest
FilesIdle ==
    /\ osenv = NoKeys
    /\ mode = "none"
    /\ doExpand = FALSE
    /\ files = <<>>
    /\ fi = 0
    /\ pc = "done"
    /\ lines = <<>>
    /\ ix = 0
    /\ envMap = NewEnvMap
    /\ err = "nil"
    /\ total = NewEnvMap
    /\ decoded = <<>>
    /\ lastLine = NoLine
    /\ merges = <<>>
    /\ round = 1
    /\ first = NewEnvMap

MapIdle ==
    /\ entries = NewEnvMap.entries
    /\ keys = NewEnvMap.keys
    /\ ret = [r |-> EmptyStr, at |-> 0 - 1]
    /\ last = NoCall
    /\ panicked = FALSE

MapInit == FilesIdle /\ MapIdle

Returned(res, call) ==
    /\ entries' = res.m.entries
    /\ keys' = res.m.keys
    /\ ret' = [r |-> res.r, at |-> res.at]
    /\ panicked' = res.panic
    /\ last' = call
    /\ UNCHANGED fileVars

DoSet ==
    \E key \in Keys, val \in Vals :
        /\ ~panicked
        /\ key \in DOMAIN keys \/ Len(entries) < MaxLen
        /\ Returned(Set(theMap, key, val), Call("Set", key, val, 0))

DoSetAt ==
    \E key \in Keys, val \in Vals, at \in Positions :
        /\ ~panicked
        /\ key \in DOMAIN keys \/ Len(entries) < MaxLen
        /\ Returned(SetAt(theMap, key, val, at), Call("SetAt", key, val, at))

DoRemove ==
    \E key \in Keys :
        /\ ~panicked
        /\ Returned(Remove(theMap, key), Call("Remove", key, EmptyStr, 0))

DoRemoveAt ==
    \E at \in Positions :
        /\ ~panicked
        /\ Returned(RemoveAt(theMap, at), Call("RemoveAt", EmptyStr, EmptyStr, at))

MapNext == DoSet \/ DoSetAt \/ DoRemove \/ DoRemoveAt

vars == <<entries, keys, ret, last, panicked, osenv, mode, doExpand, files, fi, pc, lines,
         ix, envMap, err, total, decoded, lastLine, merges, round, first>>

SpecMap == MapInit /\ [][MapNext]_vars

------------------------------------------------------------------------------
(* Characters and the string functions of the Go library that godotenv.go  *)
(* calls, on sequences of characters.                                      *)

BS == "\\"
DQ == "\""
SQ == "'"
NL == "\n"
CR == "\r"
\* the backtick character (a token of its own: the string syntax cannot hold it)
BT == "backtick"

\* regexp \s (RE2): [\t\n\f\r ]
Space == {" ", "\t", "\n", "\f", "\r"}

\* [A-Z0-9_]
IdentChars ==
    {"A", "B", "C", "D", "E", "F", "G", "H", "I", "J", "K", "L", "M",
     "N", "O", "P", "Q", "R", "S", "T", "U", "V", "W", "X", "Y", "Z",
     "0", "1", "2", "3", "4", "5", "6", "7", "8", "9", "_"}

\* s[lo:] of Go
From(s, lo) == SubSeq(s, lo + 1, Len(s))

\* strings.Index(s, c) for a one-character c: Go index of the first c, or -1
Index(s, c) ==
    IF \E i \in 1..Len(s) : s[i] = c
    THEN (CHOOSE i \in 1..Len(s) : s[i] = c /\ \A j \in 1..(i - 1) : s[j] # c) - 1
    ELSE 0 - 1

\* strings.Contains(s, c)
Contains(s, c) == \E i \in 1..Len(s) : s[i] = c

\* strings.Count(s, c)
Count(s, c) == Cardinality({i \in 1..Len(s) : s[i] = c})

\* strings.Split(s, c): the pieces between the occurrences of c
RECURSIVE Split(_, _)
Split(s, c) ==
    LET i == Index(s, c) IN
    IF i < 0 THEN <<s>> ELSE <<Slice(s, 0, i)>> \o Split(From(s, i + 1), c)

\* strings.SplitN(s, c, 2)
SplitN2(s, c) ==
    LET i == Index(s, c) IN
    IF i < 0 THEN <<s>> ELSE <<Slice(s, 0, i), From(s, i + 1)>>

\* strings.Join(segs, c)
RECURSIVE Join(_, _)
Join(segs, c) ==
    IF Len(segs) = 0 THEN <<>>
    ELSE IF Len(segs) = 1 THEN segs[1]
    ELSE segs[1] \o <<c>> \o Join(Tail(segs), c)

\* strings.TrimLeft / TrimRight / Trim with a set of characters
RECURSIVE TrimLeft(_, _)
TrimLeft(s, cut) ==
    IF Len(s) > 0 /\ s[1] \in cut THEN TrimLeft(Tail(s), cut) ELSE s

RECURSIVE TrimRight(_, _)
TrimRight(s, cut) ==
    IF Len(s) > 0 /\ s[Len(s)] \in cut THEN TrimRight(Slice(s, 0, Len(s) - 1), cut) ELSE s

Trim(s, cut) == TrimRight(TrimLeft(s, cut), cut)

\* strings.TrimSpace
TrimSpace(s) == Trim(s, Space)

\* strings.HasPrefix / strings.TrimPrefix
HasPrefix(s, p) == Len(s) >= Len(p) /\ Slice(s, 0, Len(p)) = p

TrimPrefix(s, p) == IF HasPrefix(s, p) THEN From(s, Len(p)) ELSE s

\* strings.Replace(s, c, rep, -1) for a one-character c
RECURSIVE Replace(_, _, _)
Replace(s, c, rep) ==
    IF Len(s) = 0 THEN <<>>
    ELSE (IF s[1] = c THEN rep ELSE <<s[1]>>) \o Replace(Tail(s), c, rep)

\* os.Getenv on an environment env (a function from the names that are set)
Getenv(env, name) == IF name \in DOMAIN env THEN env[name] ELSE EmptyStr

\* os.Setenv: an empty name or one that holds "=" is refused (the error is
\* dropped by loadFile) and nothing is set
Setenv(env, name, val) ==
    IF Len(name) = 0 \/ Contains(name, "=")
    THEN env
    ELSE [n \in DOMAIN env \cup {name} |-> IF n = name THEN val ELSE env[n]]

\* bufio.Scanner with ScanLines: the lines of a text, each without its "\n" and
\* without one "\r" before it; an empty rest after the last "\n" is no line
DropCR(l) == IF Len(l) > 0 /\ l[Len(l)] = CR THEN Slice(l, 0, Len(l) - 1) ELSE l

ScanLines(text) ==
    LET segs == Split(text, NL)
        kept == IF Len(segs[Len(segs)]) = 0 THEN Slice(segs, 0, Len(segs) - 1) ELSE segs
    IN  [i \in 1..Len(kept) |-> DropCR(kept[i])]

------------------------------------------------------------------------------
(* godotenv.go: the line parser *)

Export == <<"e", "x", "p", "o", "r", "t">>

isIgnoredLine(line) ==
    LET trimmedLine == TrimSpace(line) IN
    Len(trimmedLine) = 0 \/ HasPrefix(trimmedLine, <<"#">>)

\* one round of the loop over segmentsBetweenHashes;
\* st = [open |-> quotesAreOpen, keep |-> segmentsToKeep]
StripStep(st, segment) ==
    LET toggles == Count(segment, DQ) = 1 \/ Count(segment, SQ) = 1
        open1   == IF toggles THEN ~st.open ELSE st.open
        keep1   == IF toggles /\ st.open THEN Append(st.keep, segment) ELSE st.keep
        keep2   == IF Len(keep1) = 0 \/ open1 THEN Append(keep1, segment) ELSE keep1
    IN  [open |-> open1, keep |-> keep2]

RECURSIVE StripLoop(_, _)
StripLoop(st, segs) ==
    IF Len(segs) = 0 THEN st ELSE StripLoop(StripStep(st, segs[1]), Tail(segs))

\* "ditch the comments (but keep quoted hashes)"
StripComments(line) ==
    IF Contains(line, "#")
    THEN Join(StripLoop([open |-> FALSE, keep |-> <<>>], Split(line, "#")).keep, "#")
    ELSE line

\* the split of the line at its first "=" or, for a yaml-style line, first ":"
SplitLine(line) ==
    LET firstEquals == Index(line, "=")
        firstColon  == Index(line, ":")
    IN  IF firstColon # 0 - 1 /\ (firstColon < firstEquals \/ firstEquals = 0 - 1)
        THEN SplitN2(line, ":")
        ELSE SplitN2(line, "=")

\* the first computation of the key: plain prefix removal and TrimSpace.  Its
\* result is overwritten by KeyRegex before it is used.
KeyByPrefix(left) ==
    TrimSpace(IF HasPrefix(left, Export) THEN TrimPrefix(left, Export) ELSE left)

\* KeyRegex as it would be with the prefix removal in its place
KeyRegexAsPrefix(left) == KeyByPrefix(left)

\* re.ReplaceAllString(left, "$1") with re = ^\s*(?:export\s+)?(.*?)\s*$ : the
\* leading space goes, then "export" with the space after it when there is at
\* least one space character after it, then the trailing space.  (A line holds
\* no "\n", so the pattern always matches the whole of left.)
KeyRegex(left) ==
    LET a == TrimLeft(left, Space)
        b == IF HasPrefix(a, Export) /\ Len(a) > Len(Export) /\ a[Len(Export) + 1] \in Space
             THEN TrimLeft(From(a, Len(Export)), Space)
             ELSE a
    IN  TrimRight(b, Space)

\* escapeRegex.ReplaceAllStringFunc with \\. : "\n" and "\r" escapes become the
\* characters, every other escaped pair stays
RECURSIVE ExpandNewlines(_)
ExpandNewlines(v) ==
    IF Len(v) = 0 THEN <<>>
    ELSE IF v[1] = BS /\ Len(v) > 1 /\ v[2] # NL
    THEN (IF v[2] = "n" THEN <<NL>>
          ELSE IF v[2] = "r" THEN <<CR>>
          ELSE <<v[1], v[2]>>) \o ExpandNewlines(From(v, 2))
    ELSE <<v[1]>> \o ExpandNewlines(Tail(v))

\* e.ReplaceAllString(value, "$1") with e = \\([^$])
RECURSIVE Unescape(_)
Unescape(v) ==
    IF Len(v) = 0 THEN <<>>
    ELSE IF v[1] = BS /\ Len(v) > 1 /\ v[2] # "$"
    THEN <<v[2]>> \o Unescape(From(v, 2))
    ELSE <<v[1]>> \o Unescape(Tail(v))

\* the longest run of identifier characters at the head of s
RECURSIVE IdentRun(_)
IdentRun(s) ==
    IF Len(s) > 0 /\ s[1] \in IdentChars THEN <<s[1]>> \o IdentRun(Tail(s)) ELSE <<>>

\* the match of (\\)?(\$)(\()?\{?([A-Z0-9_]+)?\}? at the head of s: its
\* submatches 1, 2, 3, 4 and its length (0: no match here)
MatchRef(s) ==
    LET g1   == IF Len(s) > 1 /\ s[1] = BS /\ s[2] = "$" THEN <<BS>> ELSE <<>>
        s1   == From(s, Len(g1))
        ok   == Len(s1) > 0 /\ s1[1] = "$"
        s2   == From(s1, 1)
        g3   == IF Len(s2) > 0 /\ s2[1] = "(" THEN <<"(">> ELSE <<>>
        s3   == From(s2, Len(g3))
        lb   == IF Len(s3) > 0 /\ s3[1] = "{" THEN 1 ELSE 0
        s4   == From(s3, lb)
        g4   == IdentRun(s4)
        s5   == From(s4, Len(g4))
        rb   == IF Len(s5) > 0 /\ s5[1] = "}" THEN 1 ELSE 0
    IN  IF ok
        THEN [len |-> Len(g1) + 1 + Len(g3) + lb + Len(g4) + rb,
              g1 |-> g1, g2 |-> <<"$">>, g3 |-> g3, g4 |-> g4]
        ELSE [len |-> 0, g1 |-> <<>>, g2 |-> <<>>, g3 |-> <<>>, g4 |-> <<>>]

\* ExpandMatch as it would be if the environment were asked before the map
ExpandMatchEnvFirst(s, sub, m, env) ==
    IF sub.g1 = <<BS>> \/ sub.g2 = <<"(">>
    THEN From(s, 1)
    ELSE IF sub.g4 # EmptyStr
    THEN IF sub.g4 \in DOMAIN env THEN env[sub.g4] ELSE Get(m, sub.g4).r
    ELSE s

\* the callback of expandVariables: what a match s with submatches sub becomes.
\* The test for "(" reads submatch[2], which always holds "$".
ExpandMatch(s, sub, m, env) ==
    IF sub.g1 = <<BS>> \/ sub.g2 = <<"(">>
    THEN From(s, 1)
    ELSE IF sub.g4 # EmptyStr
    THEN IF Get(m, sub.g4).at >= 0 THEN Get(m, sub.g4).r ELSE Getenv(env, sub.g4)
    ELSE s

RECURSIVE expandVariables(_, _, _)
expandVariables(v, m, env) ==
    IF Len(v) = 0 THEN <<>>
    ELSE LET sub == MatchRef(v) IN
         IF sub.len > 0
         THEN ExpandMatch(Slice(v, 0, sub.len), sub, m, env)
                  \o expandVariables(From(v, sub.len), m, env)
         ELSE <<v[1]>> \o expandVariables(Tail(v), m, env)

\* regexp \A'(.*)'\z and \A"(.*)"\z : wrapped in q, nothing but "\n" excluded
Wrapped(v, q) ==
    Len(v) > 1 /\ v[1] = q /\ v[Len(v)] = q /\ ~Contains(Slice(v, 1, Len(v) - 1), NL)

parseValue(value, m, env, expand) ==
    LET v0 == Trim(value, {" "}) IN
    IF Len(v0) > 1
    THEN LET singleQuotes == Wrapped(v0, SQ)
             doubleQuotes == Wrapped(v0, DQ)
             v1 == IF singleQuotes \/ doubleQuotes THEN Slice(v0, 1, Len(v0) - 1) ELSE v0
             v2 == IF doubleQuotes THEN Unescape(ExpandNewlines(v1)) ELSE v1
         IN  IF ~singleQuotes /\ expand THEN expandVariables(v2, m, env) ELSE v2
    ELSE v0

NoErr == "nil"
ErrZeroLength == "zero length string"
ErrSeparate == "Can't separate key from value"

parseLine(line, m, env, expand) ==
    IF Len(line) = 0
    THEN [err |-> ErrZeroLength, key |-> EmptyStr, value |-> EmptyStr]
    ELSE LET splitString == SplitLine(StripComments(line)) IN
         IF Len(splitString) # 2
         THEN [err |-> ErrSeparate, key |-> EmptyStr, value |-> EmptyStr]
         ELSE [err |-> NoErr,
               key |-> KeyRegex(splitString[1]),
               value |-> parseValue(splitString[2], m, env, expand)]

\* doubleQuoteSpecialChars and what doubleQuoteEscape puts for each, in order
doubleQuoteSpecialChars == <<BS, NL, CR, DQ, "!", BT>>

toReplace(c) ==
    IF c = NL THEN <<BS, "n">> ELSE IF c = CR THEN <<BS, "r">> ELSE <<BS, c>>

RECURSIVE EscapeLoop(_, _)
EscapeLoop(line, chars) ==
    IF Len(chars) = 0 THEN line
    ELSE EscapeLoop(Replace(line, chars[1], toReplace(chars[1])), Tail(chars))

doubleQuoteEscape(line) == EscapeLoop(line, doubleQuoteSpecialChars)

\* Marshal: KEY="VALUE" for each entry in map order, joined by and ended with "\n"
MarshalLine(p) == p.Key \o <<"=", DQ>> \o doubleQuoteEscape(p.Val) \o <<DQ>>

\* Marshal as it would be if it emitted the entries last to first
MarshalReversed(m) ==
    Join([i \in 1..Len(m.entries) |-> MarshalLine(m.entries[Len(m.entries) + 1 - i])], NL)
        \o <<NL>>

Marshal(m) ==
    Join([i \in 1..Len(m.entries) |-> MarshalLine(m.entries[i])], NL) \o <<NL>>

------------------------------------------------------------------------------
(* godotenv.go: Parse, read, Load and Overload, as steps over the files *)

\* a file that os.Open cannot open
NoFile == <<"no such file">>
ErrOpen == "open: no such file or directory"

\* MergeInto as it would be if a key already merged kept its value
RECURSIVE MergeIntoFirstWins(_, _)
MergeIntoFirstWins(m, es) ==
    IF Len(es) = 0 THEN m
    ELSE MergeIntoFirstWins(IF es[1].Key \in DOMAIN m.keys THEN m
                            ELSE Set(m, es[1].Key, es[1].Val).m, Tail(es))

\* individualEnvMap.Iter(func(k, v string) { envMap.Set(k, v) })
RECURSIVE MergeInto(_, _)
MergeInto(m, es) ==
    IF Len(es) = 0 THEN m
    ELSE MergeInto(Set(m, es[1].Key, es[1].Val).m, Tail(es))

\* ShouldSet as it would be if Load overwrote like Overload
ShouldSetAlways(present, overload) == TRUE

\* the test of loadFile: !currentEnv[k] || overload
ShouldSet(present, overload) == ~present \/ overload

\* the Iter of loadFile over the entries es; currentEnv is the set of names
\* os.Environ() listed before the loop
RECURSIVE LoadLoop(_, _, _, _)
LoadLoop(env, es, currentEnv, overload) ==
    IF Len(es) = 0 THEN env
    ELSE LoadLoop(IF ShouldSet(es[1].Key \in currentEnv, overload)
                  THEN Setenv(env, es[1].Key, es[1].Val)
                  ELSE env,
                  Tail(es), currentEnv, overload)

\* Parse up to its loop over the lines, or readFile failing to open the file
ParseBegin ==
    /\ pc = "open"
    /\ fi < Len(files)
    /\ IF files[fi + 1] = NoFile
       THEN /\ err' = ErrOpen
            /\ pc' = "done"
            /\ UNCHANGED <<lines, ix, envMap, decoded, lastLine>>
       ELSE /\ lines' = ScanLines(files[fi + 1])
            /\ ix' = 0
            /\ envMap' = NewEnvMap
            /\ decoded' = <<>>
            /\ lastLine' = NoLine
            /\ pc' = "line"
            /\ err' = NoErr
    /\ UNCHANGED <<osenv, mode, doExpand, files, fi, total, merges, round, first>>
    /\ UNCHANGED mapVars

\* one round of Parse's loop over the lines
ParseLine ==
    /\ pc = "line"
    /\ ix < Len(lines)
    /\ LET fullLine == lines[ix + 1]
           res      == parseLine(fullLine, envMap, osenv, doExpand)
       IN  IF isIgnoredLine(fullLine)
           THEN /\ ix' = ix + 1
                /\ UNCHANGED <<envMap, err, pc, decoded, lastLine>>
           ELSE /\ lastLine' = [line |-> fullLine, pre |-> envMap, res |-> res]
                /\ IF res.err # NoErr
                   THEN /\ err' = res.err
                        /\ pc' = "done"
                        /\ UNCHANGED <<envMap, ix, decoded>>
                   ELSE /\ envMap' = Set(envMap, res.key, res.value).m
                        /\ decoded' = Append(decoded, Pair(res.key, res.value))
                        /\ ix' = ix + 1
                        /\ UNCHANGED <<err, pc>>
    /\ UNCHANGED <<osenv, mode, doExpand, files, fi, lines, total, merges, round, first>>
    /\ UNCHANGED mapVars

NextFile == IF fi + 1 < Len(files) THEN "open" ELSE "done"

\* Parse called on its own returns the map
ParseEnd ==
    /\ mode = "Parse"
    /\ pc = "line"
    /\ ix = Len(lines)
    /\ fi' = fi + 1
    /\ pc' = "done"
    /\ UNCHANGED <<osenv, mode, doExpand, files, lines, ix, envMap, err, total, decoded,
                   lastLine, merges, round, first>>
    /\ UNCHANGED mapVars

\* read: the map of the file parsed is merged into the map of the call
ReadMerge ==
    /\ mode = "Read"
    /\ pc = "line"
    /\ ix = Len(lines)
    /\ total' = MergeInto(total, Iter(envMap))
    /\ merges' = Append(merges, [pre |-> osenv, entries |-> Iter(envMap)])
    /\ fi' = fi + 1
    /\ pc' = NextFile
    /\ UNCHANGED <<osenv, mode, doExpand, files, lines, ix, envMap, err, decoded, lastLine,
                   round, first>>
    /\ UNCHANGED mapVars

\* loadFile: the map of the file parsed is written to the environment
LoadMerge ==
    /\ mode \in {"Load", "Overload"}
    /\ pc = "line"
    /\ ix = Len(lines)
    /\ osenv' = LoadLoop(osenv, Iter(envMap), DOMAIN osenv, mode = "Overload")
    /\ merges' = Append(merges, [pre |-> osenv, entries |-> Iter(envMap)])
    /\ fi' = fi + 1
    /\ pc' = NextFile
    /\ UNCHANGED <<mode, doExpand, files, lines, ix, envMap, err, total, decoded, lastLine,
                   round, first>>
    /\ UNCHANGED mapVars

\* the map Parse returned is marshalled and the text is handed to Parse again
DoMarshal ==
    /\ mode = "Parse"
    /\ pc = "done"
    /\ err = NoErr
    /\ round = 1
    /\ first' = envMap
    /\ files' = Append(files, Marshal(envMap))
    /\ round' = 2
    /\ pc' = "open"
    /\ UNCHANGED <<osenv, mode, doExpand, fi, lines, ix, envMap, err, total, decoded,
                   lastLine, merges>>
    /\ UNCHANGED mapVars

------------------------------------------------------------------------------
(* The Parse specification: one text is parsed, marshalled and parsed again *)

\* most lines of a text handed to Parse
MaxLines == 3

\* lines that come before the last line of a text
DefLines ==
    {<<"A", "=", "\"", "1", "\"">>, <<"A", "=", "\"", "$", "\"">>, <<"#", "c">>}

\* left pieces of a line
KeyForms ==
    {<<"A">>, <<"e", "x", "p", "o", "r", "t", " ", "A">>, <<"e", "x", "p", "o", "r", "t", "A">>, <<" ", "A", " ">>,
     <<"e", "x", "p", "o", "r", "t">>, <<" ", "e", "x", "p", "o", "r", "t", " ", " ", "A", " ">>, <<"e", "x", "p", "o", "r", "t", "\t", "A">>, <<"e", "x", "p", "o", "r", "t", " ">>}

\* text around a reference
Pres ==
    {<<>>, <<"x">>}
Posts ==
    {<<>>, <<"y">>}

\* references to the names A and B
RefNames == {<<"A">>, <<"B">>}

RefPlain(name) == <<"$">> \o name

RefBraced(name) == <<"$", "{">> \o name \o <<"}">>

Refs == {RefPlain(n) : n \in RefNames} \cup {RefBraced(n) : n \in RefNames}

\* \$A and $(A)
EscBackslash == <<"\\", "$", "A">>

EscParen == <<"$", "(", "A", ")">>

Escs == {EscBackslash, EscParen}

\* values without a reference to expand
PlainBodies ==
    {<<"1">>, <<"$">>, <<"$", "{", "A", "}", "X">>,
     <<"a", "#", "b">>, <<"a", "#", "'", "#", "b", "#", "c">>, <<" ", "x", " ">>}

Bodies ==
    {pre \o r \o post : pre \in Pres, r \in Refs \cup Escs, post \in Posts} \cup PlainBodies

Quotes == {<<>>, <<DQ>>, <<SQ>>}

ValueLine(q, body) == <<"X", "=">> \o q \o body \o q

KeyLine(kf) == kf \o <<"=", "1">>

LastLines ==
    {ValueLine(q, b) : q \in Quotes, b \in Bodies}
        \cup {KeyLine(kf) : kf \in KeyForms}
        \cup {<<"A", ":", " ", "1">>, <<"o", "o", "p", "s">>}

RECURSIVE SeqsUpTo(_, _)
SeqsUpTo(S, n) ==
    IF n = 0 THEN {<<>>}
    ELSE LET shorter == SeqsUpTo(S, n - 1) IN
         shorter \cup {Append(q, x) : q \in shorter, x \in S}

ParseTexts ==
    {Join(Append(before, l), NL) : before \in SeqsUpTo(DefLines, MaxLines - 1),
                                   l \in LastLines}

ParseEnvs == {NoKeys, (<<"A">> :> <<"e">>) @@ (<<"B">> :> <<"f">>)}

CallInit ==
    /\ MapIdle
    /\ fi = 0
    /\ pc = "open"
    /\ lines = <<>>
    /\ ix = 0
    /\ envMap = NewEnvMap
    /\ err = NoErr
    /\ total = NewEnvMap
    /\ decoded = <<>>
    /\ lastLine = NoLine
    /\ merges = <<>>
    /\ round = 1
    /\ first = NewEnvMap

ParseInit ==
    /\ CallInit
    /\ mode = "Parse"
    /\ doExpand \in BOOLEAN
    /\ osenv \in ParseEnvs
    /\ \E text \in ParseTexts : files = <<text>>

ParseNext == ParseBegin \/ ParseLine \/ ParseEnd \/ DoMarshal

SpecParse == ParseInit /\ [][ParseNext]_vars

------------------------------------------------------------------------------
(* The files specification: Read, ReadNoExpand, Load and Overload *)

\* most files named in one call
MaxFiles == 2

FileLines ==
    {<<"A", "=", "1">>, <<"A", "=", "2">>, <<"B", "=", "$", "A">>}

\* a file has up to two of these lines, or is a line without a separator, or
\* cannot be opened
FileSet ==
    {Join(ls, NL) \o <<NL>> : ls \in SeqsUpTo(FileLines, 2)}
        \cup {<<"o", "o", "p", "s", NL>>, NoFile}

FileEnvs == {NoKeys, (<<"A">> :> <<"e">>)}

FilesInit ==
    /\ CallInit
    /\ mode \in {"Read", "Load", "Overload"}
    /\ doExpand \in (IF mode = "Read" THEN BOOLEAN ELSE {TRUE})
    /\ osenv \in FileEnvs
    /\ files \in (SeqsUpTo(FileSet, MaxFiles) \ {<<>>})

FilesNext == ParseBegin \/ ParseLine \/ ReadMerge \/ LoadMerge

SpecFiles == FilesInit /\ [][FilesNext]_vars

------------------------------------------------------------------------------
(* Claims about the EnvMap *)

KeysOf(es) == {es[i].Key : i \in 1..Len(es)}

\* how often key occurs in es
Occurrences(es, key) == Cardinality({i \in 1..Len(es) : es[i].Key = key})

\* es without its entries for key, order kept
Without(es, key) == SelectSeq(es, LAMBDA p : p.Key # key)

\* es without entry number at (Go index)
WithoutAt(es, at) == [i \in 1..(Len(es) - 1) |-> IF i <= at THEN es[i] ELSE es[i + 1]]

\* C1: after any sequence of Set, SetAt, Remove and RemoveAt calls on a map that
\* starts empty, the index mirrors the entries: no key occurs twice in entries,
\* keys[k] is the position of k in entries, and keys holds no other key.
C1_IndexMirrorsEntries ==
    /\ \A i, j \in 1..Len(entries) : entries[i].Key = entries[j].Key => i = j
    /\ DOMAIN keys = KeysOf(entries)
    /\ \A i \in 1..Len(entries) : keys[entries[i].Key] = i - 1

C1_Witness ==
    /\ last.op = "Remove"
    /\ last.key \in DOMAIN last.pre.keys
    /\ last.pre.keys[last.key] = 0
    /\ Len(entries) = 2
    /\ keys[entries[2].Key] = 1

\* C2: SetAt(key, val, at) on a key already in the map, for any position at, leaves
\* exactly one occurrence of the key and Len() unchanged, and no other entry is
\* lost or duplicated.
C2_SetAtMovesOnly ==
    (last.op = "SetAt" /\ last.key \in DOMAIN last.pre.keys) =>
        /\ Occurrences(entries, last.key) = 1
        /\ Len(entries) = Len(last.pre.entries)
        /\ Without(entries, last.key) = Without(last.pre.entries, last.key)

\* C3: Set on a key in the map replaces the value in place (the key's position, the
\* other entries and Len() unchanged); Set on a key not in the map appends the pair
\* at the old Len(), returns ("", -1), and leaves the old entries where they were.
C3_SetInPlaceOrAppend ==
    last.op = "Set" =>
        IF last.key \in DOMAIN last.pre.keys
        THEN /\ entries = [last.pre.entries EXCEPT
                              ![last.pre.keys[last.key] + 1] = Pair(last.key, last.val)]
             /\ Get(theMap, last.key) = [r |-> last.val, at |-> last.pre.keys[last.key]]
             /\ Len(entries) = Len(last.pre.entries)
        ELSE /\ entries = Append(last.pre.entries, Pair(last.key, last.val))
             /\ Get(theMap, last.key) = [r |-> last.val, at |-> Len(last.pre.entries)]
             /\ ret = [r |-> EmptyStr, at |-> 0 - 1]

C3_Witness ==
    /\ last.op = "Set"
    /\ last.key \in DOMAIN last.pre.keys
    /\ last.pre.keys[last.key] = 0
    /\ Len(entries) = 3
    /\ entries[1].Val # last.pre.entries[1].Val

\* the position a Remove or RemoveAt call addressed, or -1 when it addressed none
Addressed ==
    IF last.op = "Remove" /\ last.key \in DOMAIN last.pre.keys
    THEN last.pre.keys[last.key]
    ELSE IF last.op = "RemoveAt" /\ 0 <= last.at /\ last.at < Len(last.pre.entries)
    THEN last.at
    ELSE 0 - 1

\* C4: Remove of a key in the map and RemoveAt of a valid position lower Len() by
\* one, delete the addressed entry only, return its old value and position, keep
\* the other entries in order, and Get(k) gives every remaining key its position.
C4_RemoveOne ==
    Addressed >= 0 =>
        /\ Len(entries) = Len(last.pre.entries) - 1
        /\ entries = WithoutAt(last.pre.entries, Addressed)
        /\ ret = [r |-> last.pre.entries[Addressed + 1].Val, at |-> Addressed]
        /\ \A i \in 1..Len(entries) :
              Get(theMap, entries[i].Key) = [r |-> entries[i].Val, at |-> i - 1]

C4_Witness ==
    /\ last.op = "RemoveAt"
    /\ Addressed = 0
    /\ Len(entries) = 2

\* the last call was a Remove of an absent key, or a RemoveAt of a position that
\* is not an index of the map (at < 0 or at >= Len(), the empty map included)
NotFoundCall ==
    /\ last.op \in {"Remove", "RemoveAt"}
    /\ Addressed < 0

\* C11: RemoveAt(at) with a position that is not a valid index (at < 0 or
\* at >= Len(), at == Len() and every call on an empty map included) and
\* Remove(key) with an absent key return ("", -1) without failing and leave the
\* entries, their order, the index and Len() unchanged.
C11_NotFoundLeavesMap ==
    NotFoundCall =>
        /\ ~panicked
        /\ ret = [r |-> EmptyStr, at |-> 0 - 1]
        /\ entries = last.pre.entries
        /\ keys = last.pre.keys
        /\ Len(entries) = Len(last.pre.entries)

------------------------------------------------------------------------------
(* Claims about Parse, read, Load and Overload *)

\* the keys of the pairs ps, each once, in the order of their first occurrence
DistinctKeys(ps) ==
    LET F[i \in 0..Len(ps)] ==
            IF i = 0 THEN <<>>
            ELSE IF \E j \in 1..(i - 1) : ps[j].Key = ps[i].Key
            THEN F[i - 1]
            ELSE Append(F[i - 1], ps[i].Key)
    IN  F[Len(ps)]

\* the value of the last pair of ps with key k
LastVal(ps, k) ==
    ps[CHOOSE i \in 1..Len(ps) :
           ps[i].Key = k /\ \A j \in (i + 1)..Len(ps) : ps[j].Key # k].Val

HasKey(ps, k) == \E i \in 1..Len(ps) : ps[i].Key = k

\* what inserting the pairs ps one by one with Set semantics must give
SetSemantics(ps) ==
    LET dk == DistinctKeys(ps) IN
    [n \in 1..Len(dk) |-> Pair(dk[n], LastVal(ps, dk[n]))]

\* the entries of the files merged so far, file after file
RECURSIVE Merged(_)
Merged(ms) == IF Len(ms) = 0 THEN <<>> ELSE ms[1].entries \o Merged(Tail(ms))

PositionsMatch(m) ==
    \A n \in 1..Len(m.entries) : Get(m, m.entries[n].Key).at = n - 1

\* C5: Parse, and read() merging several files, insert each pair with Set
\* semantics: the map lists each distinct key once, at positions 0, 1, 2, ... in
\* the order of first occurrence, with the value of the key's last occurrence.
C5_FirstPositionLastValue ==
    /\ envMap.entries = SetSemantics(decoded)
    /\ PositionsMatch(envMap)
    /\ mode = "Read" =>
          /\ total.entries = SetSemantics(Merged(merges))
          /\ PositionsMatch(total)

C5_Witness ==
    /\ mode = "Read"
    /\ pc = "done"
    /\ Len(merges) = 2
    /\ Len(merges[1].entries) = 2
    /\ decoded = <<Pair(<<"A">>, <<"1">>), Pair(<<"A">>, <<"2">>)>>
    /\ total.entries = <<Pair(<<"A">>, <<"2">>), Pair(<<"B">>, <<"1">>)>>

\* the environment after merge number n
EnvAfter(n) == IF n < Len(merges) THEN merges[n + 1].pre ELSE osenv

\* the value the first (the last) merged file that defines k gives it
FirstFileVal(k) ==
    LET n == CHOOSE n \in 1..Len(merges) :
                 /\ HasKey(merges[n].entries, k)
                 /\ \A j \in 1..(n - 1) : ~HasKey(merges[j].entries, k)
    IN  LastVal(merges[n].entries, k)

LastFileVal(k) ==
    LET n == CHOOSE n \in 1..Len(merges) :
                 /\ HasKey(merges[n].entries, k)
                 /\ \A j \in (n + 1)..Len(merges) : ~HasKey(merges[j].entries, k)
    IN  LastVal(merges[n].entries, k)

FileKeys == KeysOf(Merged(merges))

\* C6: Load never changes a variable that is in the environment when a file is
\* merged (one set by an earlier file of the call included), so for a key absent
\* beforehand the first file that defines it wins; Overload sets every key of
\* every file loaded, so the last file that defines a key wins.
C6_PreserveOrOverwrite ==
    /\ mode = "Load" =>
          /\ \A n \in 1..Len(merges) : \A k \in DOMAIN merges[n].pre :
                 k \in DOMAIN EnvAfter(n) /\ EnvAfter(n)[k] = merges[n].pre[k]
          /\ \A k \in FileKeys :
                 k \notin DOMAIN merges[1].pre =>
                     k \in DOMAIN osenv /\ osenv[k] = FirstFileVal(k)
    /\ mode = "Overload" =>
          /\ \A n \in 1..Len(merges) : \A i \in 1..Len(merges[n].entries) :
                 /\ merges[n].entries[i].Key \in DOMAIN EnvAfter(n)
                 /\ EnvAfter(n)[merges[n].entries[i].Key] = merges[n].entries[i].Val
          /\ \A k \in FileKeys : k \in DOMAIN osenv /\ osenv[k] = LastFileVal(k)

C6_Witness ==
    /\ mode = "Load"
    /\ pc = "done"
    /\ Len(merges) = 2
    /\ merges[1].pre = NoKeys
    /\ merges[1].entries = <<Pair(<<"A">>, <<"1">>)>>
    /\ merges[2].entries = <<Pair(<<"A">>, <<"2">>), Pair(<<"B">>, <<"2">>)>>
    /\ osenv[<<"A">>] = <<"1">>
    /\ osenv[<<"B">>] = <<"2">>

\* the pairs decoded before the last line parsed
DecodedBefore == Slice(decoded, 0, Len(decoded) - 1)

\* what a reference to name must stand for when the last line is parsed: the
\* value of the most recent earlier line that defines name, else the value the
\* environment has for name, else ""
Referenced(name) ==
    IF HasKey(DecodedBefore, name) THEN LastVal(DecodedBefore, name)
    ELSE IF name \in DOMAIN osenv THEN osenv[name]
    ELSE EmptyStr

\* quoting in which values are expanded: none and double
ExpandingQuotes == {<<>>, <<DQ>>}

\* C7: with expansion on, $NAME or ${NAME} in an unquoted or double-quoted value
\* is replaced by the value NAME has in the map being built when the line is
\* parsed, else by the environment's value for NAME, else by "".
C7_MapThenEnvThenEmpty ==
    (doExpand /\ lastLine.res.err = NoErr) =>
        \A q \in ExpandingQuotes, pre \in Pres, post \in Posts, name \in RefNames :
            \A ref \in {RefPlain(name), RefBraced(name)} :
                lastLine.line = ValueLine(q, pre \o ref \o post) =>
                    lastLine.res.value = pre \o Referenced(name) \o post

C7_Witness ==
    /\ doExpand
    /\ lastLine.res.err = NoErr
    /\ lastLine.line = ValueLine(<<DQ>>, <<"x">> \o RefBraced(<<"A">>) \o <<"y">>)
    /\ DecodedBefore = <<Pair(<<"A">>, <<"1">>), Pair(<<"A">>, <<"$">>)>>
    /\ osenv = (<<"A">> :> <<"e">>) @@ (<<"B">> :> <<"f">>)
    /\ lastLine.res.value = <<"x", "$", "y">>

\* C8: a match with a leading backslash, or with "(" right after the "$", is
\* never substituted: it is emitted without its first character (the backslash
\* of \$NAME, the "$" of $(NAME), so NAME stays as it is written.
C8_EscapedNeverSubstituted ==
    (doExpand /\ lastLine.res.err = NoErr) =>
        \A q \in ExpandingQuotes, pre \in Pres, post \in Posts :
            /\ lastLine.line = ValueLine(q, pre \o EscBackslash \o post) =>
                   lastLine.res.value = pre \o <<"$", "A">> \o post
            /\ lastLine.line = ValueLine(q, pre \o EscParen \o post) =>
                   lastLine.res.value = pre \o <<"(", "A", ")">> \o post

\* left begins, after space, with "export" and at least one space character
ExportWord(left) ==
    \E n \in 0..Len(left) :
        /\ \A j \in 1..n : left[j] \in Space
        /\ Len(left) > n + Len(Export)
        /\ Slice(left, n, n + Len(Export)) = Export
        /\ left[n + Len(Export) + 1] \in Space

\* the key with "export" removed only as a word: when space follows it
KeyExportWord(left) ==
    IF ExportWord(left)
    THEN TrimSpace(From(TrimSpace(left), Len(Export)))
    ELSE TrimSpace(left)

\* C9 as stated: the key is the left piece with one leading "export" removed as
\* a plain prefix and the surrounding space trimmed; "exportA" gives "A".
C9_KeyPlainPrefix ==
    lastLine.res.err = NoErr =>
        /\ \A kf \in KeyForms :
               lastLine.line = KeyLine(kf) =>
                   lastLine.res.key = TrimSpace(TrimPrefix(kf, Export))
        /\ lastLine.line = KeyLine(<<"e", "x", "p", "o", "r", "t", "A">>) =>
               lastLine.res.key = <<"A">>

\* C9 as amended: the key is the left piece without its leading space, without
\* one leading "export" and the space after it when at least one space character
\* follows that "export", and without its trailing space; "exportA" stays
\* "exportA", "export A" gives "A", "export" stays "export", "export " gives "".
C9_KeyExportWord ==
    lastLine.res.err = NoErr =>
        /\ \A kf \in KeyForms :
               lastLine.line = KeyLine(kf) => lastLine.res.key = KeyExportWord(kf)
        /\ lastLine.line = KeyLine(<<"e", "x", "p", "o", "r", "t", "A">>) =>
               lastLine.res.key = <<"e", "x", "p", "o", "r", "t", "A">>
        /\ lastLine.line = KeyLine(<<"e", "x", "p", "o", "r", "t", " ", "A">>) =>
               lastLine.res.key = <<"A">>
        /\ lastLine.line = KeyLine(<<"e", "x", "p", "o", "r", "t">>) =>
               lastLine.res.key = <<"e", "x", "p", "o", "r", "t">>
        /\ lastLine.line = KeyLine(<<"e", "x", "p", "o", "r", "t", " ">>) =>
               lastLine.res.key = <<>>

C9_Witness ==
    /\ lastLine.res.err = NoErr
    /\ lastLine.line = KeyLine(<<"e", "x", "p", "o", "r", "t", "A">>)
    /\ lastLine.res.key = <<"e", "x", "p", "o", "r", "t", "A">>
    /\ envMap.entries[Len(envMap.entries)].Key = <<"e", "x", "p", "o", "r", "t", "A">>

\* the characters Marshal escapes
SpecialChars == {doubleQuoteSpecialChars[i] : i \in 1..Len(doubleQuoteSpecialChars)}

\* line is KEY="VALUE": an identifier, =, and a double-quoted value without a
\* character that Marshal escapes
QuotedBody(line) == Slice(line, Index(line, "=") + 2, Len(line) - 1)

IsQuotedLine(line) ==
    LET i == Index(line, "=") IN
    /\ i >= 1
    /\ \A j \in 1..i : line[j] \in IdentChars
    /\ Len(line) >= i + 3
    /\ line[i + 2] = DQ
    /\ line[Len(line)] = DQ
    /\ \A j \in 1..Len(QuotedBody(line)) : QuotedBody(line)[j] \notin SpecialChars

QuotedText(text) ==
    \A i \in 1..Len(Split(text, NL)) : IsQuotedLine(Split(text, NL)[i])

NoDollar(text) ==
    \A i \in 1..Len(Split(text, NL)) : ~Contains(QuotedBody(Split(text, NL)[i]), "$")

RoundTripDone == mode = "Parse" /\ round = 2 /\ pc = "done" /\ err = NoErr

\* C10 as stated: for a text of KEY="VALUE" lines whose values need no quoting
\* changes, Parse(Marshal(Parse(text))) has the keys, values and positions of
\* Parse(text), in the same order.
C10_RoundTrip ==
    (RoundTripDone /\ QuotedText(files[1])) => envMap = first

\* C10 as amended: the same for values that hold none of the characters Marshal
\* escapes and, when the text is parsed with expansion, no "$".
C10_RoundTripNoDollar ==
    (RoundTripDone /\ QuotedText(files[1]) /\ (doExpand => NoDollar(files[1])))
        => envMap = first

C10_Witness ==
    /\ RoundTripDone
    /\ doExpand
    /\ files[1] = Join(<<<<"A", "=", "\"", "1", "\"">>, ValueLine(<<DQ>>, <<"a", "#", "'", "#", "b", "#", "c">>)>>, NL)
    /\ first.entries = <<Pair(<<"A">>, <<"1">>), Pair(<<"X">>, <<"a", "#", "'", "#", "c">>)>>
    /\ envMap = first

====
